---- MODULE Spec2Model ----
(***************************************************************************)
(* Model of aws/driver/driver_funcs.go: the dry-run and execute entry      *)
(* points of the drivers, and the convergence checker (checker.check).     *)
(*                                                                         *)
(* Go values are tagged records; a parameter mapping is a function whose   *)
(* DOMAIN is the set of keys present in the Go map.  Time is counted in    *)
(* seconds from the moment check() creates its timer.                      *)
(***************************************************************************)
EXTENDS Integers, Sequences, FiniteSets, TLC

VARIABLES
    op,       \* name of the entry point invoked last ("none" before any)
    params,   \* the parameter mapping it was invoked with
    calls,    \* provider calls issued by the invocation, in order
    ret,      \* what the invocation returned: [kind, val, err]
    pc,       \* "idle" | "select" (blocked in check()'s select) | "done"
    c,        \* the checker built by a Check_* execute entry point
    now,      \* current time
    timerAt,  \* when timer.C (time.NewTimer(c.timeout)) becomes ready
    tickAt,   \* when the pending time.After(c.frequency) becomes ready
    trace,    \* fetches made by check(): [at, dur, got, err]
    env,      \* local environment the invocation ran in (key directory, files)
    files,    \* paths of the files the invocation wrote
    instanceGroups,  \* security groups the provider holds for the instance
    initialGroups,   \* the groups it held before any invocation
    inv,      \* concurrent invocations of Attach_/Detach_Securitygroup
    events    \* their provider calls, in the order the provider served them

sgvars == <<instanceGroups, initialGroups, inv, events>>
vars == <<op, params, calls, ret, pc, c, now, timerAt, tickAt, trace, env, files,
          instanceGroups, initialGroups, inv, events>>

-----------------------------------------------------------------------------
(* Bounds of the model *)

MaxTimeout == 16     \* largest 'timeout' parameter, in seconds
MaxFetchDur == 2     \* longest time one provider call takes, in seconds
MaxSuffix == 1       \* largest random suffix drawn by fakeDryRunId
MaxGroups == 2       \* most security groups the instance starts with

-----------------------------------------------------------------------------
(* Go values *)

Nil == [t |-> "nil"]
Str(s) == [t |-> "string", v |-> s]
GoInt(n) == [t |-> "int", v |-> n]
Strs(ss) == [t |-> "strings", v |-> ss]
Error(msg) == [t |-> "error", msg |-> msg]
AwsErr(code) == [t |-> "awserr", code |-> code]
Output(api, body) == [t |-> "output", api |-> api, body |-> body]

IsNil(x) == x.t = "nil"
IsString(x) == x.t = "string"
IsInt(x) == x.t = "int"
IsAwsErr(x) == x.t = "awserr"

\* strings.HasSuffix
HasSuffix(s, suffix) ==
    /\ Len(s) >= Len(suffix)
    /\ SubSeq(s, Len(s) - Len(suffix) + 1, Len(s)) = suffix

\* fmt.Sprint of a parameter value
Sprint(x) ==
    CASE x.t = "nil" -> "<nil>"
      [] x.t = "string" -> x.v
      [] x.t = "int" -> ToString(x.v)
      [] OTHER -> "[...]"

\* err.Error() as printed by the %s verb; a nil error prints as %!s(<nil>)
ErrorString(e) ==
    CASE e.t = "nil" -> "%!s(<nil>)"
      [] e.t = "awserr" -> e.code \o ": provider message"
      [] OTHER -> e.msg

\* _, ok := params[k]   and   params[k]
Has(p, k) == k \in DOMAIN p
Get(p, k) == IF k \in DOMAIN p THEN p[k] ELSE Nil

\* all mappings over a subset of keys, each key drawing from vals[k]
ParamMaps(keys, vals) ==
    UNION { { f \in [S -> UNION { vals[k] : k \in keys }] :
                \A k \in S : f[k] \in vals[k] } : S \in SUBSET keys }

-----------------------------------------------------------------------------
(* Constants of the package *)

notFoundState == "not-found"
dryRunOperation == "DryRunOperation"
notFound == "NotFound"
awsstr == "awsstr"
awsstringslice == "awsstringslice"
awsint64 == "awsint64"
Frequency == 5

\* resource-type tags of package cloud
cloud_Instance == "instance"
cloud_Subnet == "subnet"
cloud_Vpc == "vpc"
cloud_Volume == "volume"
cloud_SecurityGroup == "securitygroup"
cloud_InternetGateway == "internetgateway"

Bool(b) == [t |-> "bool", v |-> b]
Int64(n) == [t |-> "int64", v |-> n]

-----------------------------------------------------------------------------
(* Parameter binder *)

\* The coercion of setFieldWithType.  nilScalar says whether a nil value
\* given for a string list is promoted like a scalar or refused.
Coerce(v, destType, nilScalar) ==
    CASE destType = awsstr ->
            [ok |-> TRUE, val |-> Str(Sprint(v))]
      [] destType = awsstringslice ->
            CASE v.t = "strings" -> [ok |-> TRUE, val |-> v]
              [] v.t = "nil" -> [ok |-> nilScalar, val |-> Strs(<<Sprint(v)>>)]
              [] OTHER -> [ok |-> TRUE, val |-> Strs(<<Sprint(v)>>)]
      [] destType = awsint64 ->
            IF v.t \in {"int", "int64"}
            THEN [ok |-> TRUE, val |-> Int64(v.v)]
            ELSE [ok |-> FALSE, val |-> Nil]
      [] OTHER -> [ok |-> FALSE, val |-> Nil]

\* Writes val at the dotted path (a sequence of field names) of a struct.
RECURSIVE SetValueAtPath(_, _, _)
SetValueAtPath(i, fieldPath, val) ==
    IF Len(fieldPath) = 1
    THEN [i EXCEPT ![fieldPath[1]] = val]
    ELSE [i EXCEPT ![fieldPath[1]] = SetValueAtPath(@, Tail(fieldPath), val)]

RECURSIVE PathExists(_, _)
PathExists(i, fieldPath) ==
    /\ fieldPath[1] \in DOMAIN i
    /\ \/ Len(fieldPath) = 1
       \/ /\ "t" \notin DOMAIN i[fieldPath[1]]
          /\ PathExists(i[fieldPath[1]], Tail(fieldPath))

\* setFieldWithType(v, i, fieldPath, destType): [err, obj], obj being i
\* after the call.
setFieldWithType(v, i, fieldPath, destType, nilScalar) ==
    LET cv == Coerce(v, destType, nilScalar) IN
    IF ~PathExists(i, fieldPath)
    THEN [err |-> Error("set field: missing segment"), obj |-> i]
    ELSE IF ~cv.ok
    THEN [err |-> Error("set field: type mismatch"), obj |-> i]
    ELSE [err |-> Nil, obj |-> SetValueAtPath(i, fieldPath, cv.val)]

-----------------------------------------------------------------------------
(* Helpers of driver_funcs.go *)

\* the switch without its default case: an untagged entity gets no identifier
fakeDryRunId_NoDefault(entity, suffix) ==
    CASE entity = cloud_Instance -> "i-" \o ToString(suffix)
      [] entity = cloud_Subnet -> "subnet-" \o ToString(suffix)
      [] entity = cloud_Vpc -> "vpc-" \o ToString(suffix)
      [] entity = cloud_Volume -> "vol-" \o ToString(suffix)
      [] entity = cloud_SecurityGroup -> "sg-" \o ToString(suffix)
      [] entity = cloud_InternetGateway -> "igw-" \o ToString(suffix)
      [] OTHER -> ""

fakeDryRunId(entity, suffix) ==
    CASE entity = cloud_Instance -> "i-" \o ToString(suffix)
      [] entity = cloud_Subnet -> "subnet-" \o ToString(suffix)
      [] entity = cloud_Vpc -> "vpc-" \o ToString(suffix)
      [] entity = cloud_Volume -> "vol-" \o ToString(suffix)
      [] entity = cloud_SecurityGroup -> "sg-" \o ToString(suffix)
      [] entity = cloud_InternetGateway -> "igw-" \o ToString(suffix)
      [] OTHER -> "dryrunid-" \o ToString(suffix)

\* strings.Contains
Contains(s, substr) ==
    \E i \in 1..(Len(s) + 1) :
        /\ i + Len(substr) - 1 <= Len(s)
        /\ SubSeq(s, i, i + Len(substr) - 1) = substr

\* strings.SplitN(s, "-", 2), for s containing "-"
SplitDash(s) ==
    LET i == CHOOSE k \in 1..Len(s) :
                 /\ SubSeq(s, k, k) = "-"
                 /\ \A j \in 1..(k - 1) : SubSeq(s, j, j) # "-"
    IN <<SubSeq(s, 1, i - 1), SubSeq(s, i + 1, Len(s))>>

Digits == <<"0", "1", "2", "3", "4", "5", "6", "7", "8", "9">>
IsDigit(ch) == \E d \in 1..10 : Digits[d] = ch
DigitVal(ch) == (CHOOSE d \in 1..10 : Digits[d] = ch) - 1

RECURSIVE ParseDigits(_, _)
ParseDigits(s, acc) ==
    IF Len(s) = 0 THEN acc
    ELSE ParseDigits(SubSeq(s, 2, Len(s)), 10 * acc + DigitVal(SubSeq(s, 1, 1)))

\* strconv.ParseInt(s, 10, 64), for the short strings of the model
ParseInt(s) ==
    LET neg == Len(s) > 0 /\ SubSeq(s, 1, 1) = "-"
        body == IF neg \/ (Len(s) > 0 /\ SubSeq(s, 1, 1) = "+")
                THEN SubSeq(s, 2, Len(s)) ELSE s
    IN IF Len(body) = 0 \/ \E k \in 1..Len(body) : ~IsDigit(SubSeq(body, k, k))
       THEN [err |-> Error("strconv.ParseInt: parsing: invalid syntax"), val |-> 0]
       ELSE [err |-> Nil,
             val |-> IF neg THEN 0 - ParseDigits(body, 0) ELSE ParseDigits(body, 0)]

IpPermission(cidr) ==
    [IpRanges |-> <<[CidrIp |-> Str(cidr)]>>,
     FromPort |-> Nil, ToPort |-> Nil, IpProtocol |-> Nil]

\* buildIpPermissionsFromParams: [err, perms]
buildIpPermissionsFromParams(p) ==
    IF ~IsString(Get(p, "cidr"))
    THEN [err |-> Error("invalid cidr '" \o Sprint(Get(p, "cidr")) \o "'"), perms |-> <<>>]
    ELSE IF ~IsString(Get(p, "protocol"))
    THEN [err |-> Error("invalid protocol '" \o Sprint(Get(p, "protocol")) \o "'"), perms |-> <<>>]
    ELSE
    LET ipPerm == IpPermission(Get(p, "cidr").v)
        proto == Get(p, "protocol").v
        ports == Get(p, "portrange")
        range(from, to) ==
            [err |-> Nil,
             perms |-> <<[ipPerm EXCEPT !.IpProtocol = Str(proto),
                                        !.FromPort = Int64(from), !.ToPort = Int64(to)]>>]
    IN
    IF Contains("any", proto)
    THEN [err |-> Nil,
          perms |-> <<[ipPerm EXCEPT !.FromPort = Int64(-1), !.ToPort = Int64(-1),
                                     !.IpProtocol = Str("-1")]>>]
    ELSE CASE ports.t \in {"int", "int64"} -> range(ports.v, ports.v)
           [] ports.t = "string" ->
                IF Contains(ports.v, "any") THEN range(-1, -1)
                ELSE IF Contains(ports.v, "-")
                THEN LET from == ParseInt(SplitDash(ports.v)[1])
                         to == ParseInt(SplitDash(ports.v)[2])
                     IN IF ~IsNil(from.err) THEN [err |-> from.err, perms |-> <<>>]
                        ELSE IF ~IsNil(to.err) THEN [err |-> to.err, perms |-> <<>>]
                        ELSE range(from.val, to.val)
                ELSE LET port == ParseInt(ports.v)
                     IN IF ~IsNil(port.err) THEN [err |-> port.err, perms |-> <<>>]
                        ELSE range(port.val, port.val)
           [] OTHER ->
                [err |-> Nil, perms |-> <<[ipPerm EXCEPT !.IpProtocol = Str(proto)]>>]

-----------------------------------------------------------------------------
(* Provider boundary and results of an entry point *)

\* one provider call: the API, the request passed and the response returned
Call(api, input, resp) == [api |-> api, input |-> input, resp |-> resp]

\* what an entry point returns, with the provider calls it issued
Result(val, err, issued) == [val |-> val, err |-> err, calls |-> issued]

\* request structs, every field unset
DescribeInstancesInput ==
    [struct |-> "DescribeInstancesInput", DryRun |-> Nil, InstanceIds |-> Nil]
CreateTagsInput ==
    [struct |-> "CreateTagsInput", DryRun |-> Nil, Resources |-> Nil, Tags |-> Nil]
DeleteTagsInput ==
    [struct |-> "DeleteTagsInput", DryRun |-> Nil, Resources |-> Nil, Tags |-> Nil]
ImportKeyPairInput ==
    [struct |-> "ImportKeyPairInput", DryRun |-> Nil, KeyName |-> Nil,
     PublicKeyMaterial |-> Nil]
SecurityGroupRuleInput(struct) ==
    [struct |-> struct, DryRun |-> Nil, IpPermissions |-> Nil, GroupId |-> Nil]
Tag(key, value) == [Key |-> Str(key), Value |-> Str(value)]

\* the provider function the type switch of Update_Securitygroup selects
RuleApi(struct) ==
    CASE struct = "AuthorizeSecurityGroupIngressInput" -> "AuthorizeSecurityGroupIngress"
      [] struct = "RevokeSecurityGroupIngressInput" -> "RevokeSecurityGroupIngress"
      [] struct = "AuthorizeSecurityGroupEgressInput" -> "AuthorizeSecurityGroupEgress"
      [] OTHER -> "RevokeSecurityGroupEgress"

\* the not-found code matched anywhere in the code instead of at its end
IsDryRunOk_Contains(err) ==
    /\ IsAwsErr(err)
    /\ \/ err.code = dryRunOperation
       \/ Contains(err.code, notFound)

\* the awserr.Error switch shared by the dry-run entry points
IsDryRunOk(err) ==
    /\ IsAwsErr(err)
    /\ \/ err.code = dryRunOperation
       \/ HasSuffix(err.code, notFound)

-----------------------------------------------------------------------------
(* Dry-run entry points.  e is the environment of one invocation:          *)
(* e.resp the provider's response, e.suffix the random suffix,             *)
(* e.nilScalar the binder's treatment of nil, e.keyDir the value of        *)
(* __AWLESS_KEYS_DIR, e.stat the outcome of os.Stat.                       *)

Attach_Securitygroup_DryRun(p, e) ==
    IF ~Has(p, "id")
    THEN Result(Nil, Error("attach securitygroup: missing required params 'id'"), <<>>)
    ELSE IF ~Has(p, "instance")
    THEN Result(Nil, Error("attach securitygroup: missing 'instance' param"), <<>>)
    ELSE Result(Nil, Nil, <<>>)

Detach_Securitygroup_DryRun(p, e) ==
    IF ~Has(p, "id")
    THEN Result(Nil, Error("detach securitygroup: missing required params 'id'"), <<>>)
    ELSE IF ~Has(p, "instance")
    THEN Result(Nil, Error("detach securitygroup: missing 'instance' param"), <<>>)
    ELSE Result(Nil, Nil, <<>>)

Attach_Policy_DryRun(p, e) ==
    IF ~Has(p, "arn")
    THEN Result(Nil, Error("attach policy: missing required params 'arn'"), <<>>)
    ELSE IF ~Has(p, "user") /\ ~Has(p, "group")
    THEN Result(Nil, Error("attach policy: missing one of 'user, group' param"), <<>>)
    ELSE Result(Nil, Nil, <<>>)

Detach_Policy_DryRun(p, e) ==
    IF ~Has(p, "arn")
    THEN Result(Nil, Error("detach policy: missing required params 'arn'"), <<>>)
    ELSE IF ~Has(p, "user") /\ ~Has(p, "group")
    THEN Result(Nil, Error("detach policy: missing one of 'user, group' param"), <<>>)
    ELSE Result(Nil, Nil, <<>>)

Create_Accesskey_DryRun(p, e) ==
    IF ~Has(p, "user")
    THEN Result(Nil, Error("create accesskey: missing required params 'user'"), <<>>)
    ELSE Result(Nil, Nil, <<>>)

InstanceStates ==
    {"pending", "running", "shutting-down", "terminated", "stopping", "stopped",
     notFoundState}

Check_Instance_DryRun(p, e) ==
    IF ~Has(p, "id")
    THEN Result(Nil, Error("check instance: missing required params 'id'"), <<>>)
    ELSE IF ~IsString(Get(p, "state"))
    THEN Result(Nil, Error("check instance: missing required params 'state'"), <<>>)
    ELSE IF Get(p, "state").v \notin InstanceStates
    THEN Result(Nil, Error("check instance: invalid state '" \o Get(p, "state").v \o "'"), <<>>)
    ELSE IF ~Has(p, "timeout")
    THEN Result(Nil, Error("check instance: missing required params 'timeout'"), <<>>)
    ELSE IF ~IsInt(Get(p, "timeout"))
    THEN Result(Nil, Error("check instance: timeout param is not int"), <<>>)
    ELSE
    LET input == [DescribeInstancesInput EXCEPT !.DryRun = Bool(TRUE)]
        b == setFieldWithType(Get(p, "id"), input, <<"InstanceIds">>, awsstringslice,
                              e.nilScalar)
        issued == <<Call("DescribeInstances", b.obj, e.resp)>>
    IN IF ~IsNil(b.err) THEN Result(Nil, b.err, <<>>)
       ELSE IF IsDryRunOk(e.resp.err)
       THEN Result(Str(fakeDryRunId("instance", e.suffix)), Nil, issued)
       ELSE Result(Nil, Error("dry run: check instance: " \o ErrorString(e.resp.err)),
                   issued)

Check_Securitygroup_DryRun(p, e) ==
    IF ~Has(p, "id")
    THEN Result(Nil, Error("check securitygroup: missing required params 'id'"), <<>>)
    ELSE IF ~IsString(Get(p, "state"))
    THEN Result(Nil, Error("check securitygroup: missing required params 'state'"), <<>>)
    ELSE IF Get(p, "state").v \notin {"unused"}
    THEN Result(Nil, Error("check securitygroup: invalid state '" \o Get(p, "state").v \o "'"),
                <<>>)
    ELSE IF ~Has(p, "timeout")
    THEN Result(Nil, Error("check securitygroup: missing required params 'timeout'"), <<>>)
    ELSE IF ~IsInt(Get(p, "timeout"))
    THEN Result(Nil, Error("check securitygroup: timeout param is not int"), <<>>)
    ELSE Result(Nil, Nil, <<>>)

LoadbalancerStates == {"provisioning", "active", "failed", notFoundState}

Check_Loadbalancer_DryRun(p, e) ==
    IF ~Has(p, "id")
    THEN Result(Nil, Error("check loadbalancer: missing required params 'id'"), <<>>)
    ELSE IF ~IsString(Get(p, "state"))
    THEN Result(Nil, Error("check loadbalancer: missing required params 'state'"), <<>>)
    ELSE IF Get(p, "state").v \notin LoadbalancerStates
    THEN Result(Nil, Error("check loadbalancer: invalid state '" \o Get(p, "state").v \o "'"),
                <<>>)
    ELSE IF ~Has(p, "timeout")
    THEN Result(Nil, Error("check loadbalancer: missing required params 'timeout'"), <<>>)
    ELSE Result(Nil, Nil, <<>>)

\* the dry run of Create_Tag with the DryRun flag left unset
Create_Tag_DryRun_Unflagged(p, e) ==
    LET input == CreateTagsInput
        b == setFieldWithType(Get(p, "resource"), input, <<"Resources">>, awsstringslice,
                              e.nilScalar)
        full == [b.obj EXCEPT !.Tags = <<Tag(Sprint(Get(p, "key")), Sprint(Get(p, "value")))>>]
        issued == <<Call("CreateTags", full, e.resp)>>
    IN IF ~IsNil(b.err) THEN Result(Nil, b.err, <<>>)
       ELSE IF IsDryRunOk(e.resp.err)
       THEN Result(Str(fakeDryRunId("tag", e.suffix)), Nil, issued)
       ELSE Result(Nil, Error("dry run: create tag: " \o ErrorString(e.resp.err)), issued)

Create_Tag_DryRun(p, e) ==
    LET input == [CreateTagsInput EXCEPT !.DryRun = Bool(TRUE)]
        b == setFieldWithType(Get(p, "resource"), input, <<"Resources">>, awsstringslice,
                              e.nilScalar)
        full == [b.obj EXCEPT !.Tags = <<Tag(Sprint(Get(p, "key")), Sprint(Get(p, "value")))>>]
        issued == <<Call("CreateTags", full, e.resp)>>
    IN IF ~IsNil(b.err) THEN Result(Nil, b.err, <<>>)
       ELSE IF IsDryRunOk(e.resp.err)
       THEN Result(Str(fakeDryRunId("tag", e.suffix)), Nil, issued)
       ELSE Result(Nil, Error("dry run: create tag: " \o ErrorString(e.resp.err)), issued)

Delete_Tag_DryRun(p, e) ==
    LET input == [DeleteTagsInput EXCEPT !.DryRun = Bool(TRUE)]
        b == setFieldWithType(Get(p, "resource"), input, <<"Resources">>, awsstringslice,
                              e.nilScalar)
        full == [b.obj EXCEPT !.Tags = <<Tag(Sprint(Get(p, "key")), Sprint(Get(p, "value")))>>]
        issued == <<Call("DeleteTags", full, e.resp)>>
    IN IF ~IsNil(b.err) THEN Result(Nil, b.err, <<>>)
       ELSE IF IsDryRunOk(e.resp.err)
       THEN Result(Str(fakeDryRunId("tag", e.suffix)), Nil, issued)
       ELSE Result(Nil, Error("dry run: delete tag: " \o ErrorString(e.resp.err)), issued)

keyDirEnv == "__AWLESS_KEYS_DIR"

Create_Keypair_DryRun(p, e) ==
    LET input == [ImportKeyPairInput EXCEPT !.DryRun = Bool(TRUE)]
        b == setFieldWithType(Get(p, "name"), input, <<"KeyName">>, awsstr, e.nilScalar)
    IN IF ~IsNil(b.err) THEN Result(Nil, b.err, <<>>)
       ELSE IF Get(p, "name") = Str("")
       THEN Result(Nil, Error("dry run: saving private key: empty 'name' parameter"), <<>>)
       ELSE IF e.keyDir = ""
       THEN Result(Nil, Error("dry run: saving private key: empty env var '" \o keyDirEnv
                              \o "'"), <<>>)
       ELSE IF e.stat \in {"file", "dir"}
       THEN Result(Nil, Error("dry run: saving private key: file already exists at path: "
                              \o e.keyDir \o "/" \o Sprint(Get(p, "name")) \o ".pem"), <<>>)
       ELSE Result(Nil, Nil, <<>>)

Update_Securitygroup_DryRun(p, e) ==
    LET ip == buildIpPermissionsFromParams(p)
        inbound == Get(p, "inbound")
        outbound == Get(p, "outbound")
        new(struct) == [SecurityGroupRuleInput(struct) EXCEPT
                            !.DryRun = Bool(TRUE), !.IpPermissions = ip.perms]
        input == IF IsString(outbound)
                 THEN IF outbound.v = "authorize"
                      THEN new("AuthorizeSecurityGroupEgressInput")
                      ELSE new("RevokeSecurityGroupEgressInput")
                 ELSE IF inbound.v = "authorize"
                      THEN new("AuthorizeSecurityGroupIngressInput")
                      ELSE new("RevokeSecurityGroupIngressInput")
        b == setFieldWithType(Get(p, "id"), input, <<"GroupId">>, awsstr, e.nilScalar)
        issued == <<Call(RuleApi(input.struct), b.obj, e.resp)>>
    IN IF ~IsNil(ip.err) THEN Result(Nil, ip.err, <<>>)
       ELSE IF IsString(inbound) /\ inbound.v \notin {"authorize", "revoke"}
       THEN Result(Nil, Error("'inbound' parameter expect 'authorize' or 'revoke', got "
                              \o inbound.v), <<>>)
       ELSE IF IsString(outbound) /\ outbound.v \notin {"authorize", "revoke"}
       THEN Result(Nil, Error("'outbound' parameter expect 'authorize' or 'revoke', got "
                              \o outbound.v), <<>>)
       ELSE IF ~IsString(inbound) /\ ~IsString(outbound)
       THEN Result(Nil, Error("expect either 'inbound' or 'outbound' parameter"), <<>>)
       ELSE IF ~IsNil(b.err) THEN Result(Nil, b.err, <<>>)
       ELSE IF IsDryRunOk(e.resp.err)
       THEN Result(Nil, Nil, issued)
       ELSE Result(Nil, Error("dry run: update securitygroup: " \o ErrorString(e.resp.err)),
                   issued)

Create_S3object_DryRun(p, e) ==
    IF ~Has(p, "bucket")
    THEN Result(Nil, Error("create s3object: missing required params 'bucket'"), <<>>)
    ELSE IF ~IsString(Get(p, "file"))
    THEN Result(Nil, Error("create s3object: missing required string params 'file'"), <<>>)
    ELSE IF e.stat = "notexist"
    THEN Result(Nil, Error("cannot find file '" \o Get(p, "file").v \o "'"), <<>>)
    ELSE IF e.stat = "error"
    THEN Result(Nil, Error("stat " \o Get(p, "file").v \o ": permission denied"), <<>>)
    ELSE IF e.stat = "dir"
    THEN Result(Nil, Error("'" \o Get(p, "file").v \o "' is a directory"), <<>>)
    ELSE Result(Nil, Nil, <<>>)

Create_Record_DryRun(p, e) ==
    IF ~Has(p, "zone")
    THEN Result(Nil, Error("create record: missing required params 'zone'"), <<>>)
    ELSE IF ~Has(p, "name")
    THEN Result(Nil, Error("create record: missing required params 'name'"), <<>>)
    ELSE IF ~Has(p, "type")
    THEN Result(Nil, Error("create record: missing required params 'type'"), <<>>)
    ELSE IF ~Has(p, "value")
    THEN Result(Nil, Error("create record: missing required params 'value'"), <<>>)
    ELSE IF ~Has(p, "ttl")
    THEN Result(Nil, Error("create record: missing required params 'ttl'"), <<>>)
    ELSE Result(Nil, Nil, <<>>)

Delete_Record_DryRun(p, e) ==
    IF ~Has(p, "zone")
    THEN Result(Nil, Error("delete record: missing required params 'zone'"), <<>>)
    ELSE IF ~Has(p, "name")
    THEN Result(Nil, Error("delete record: missing required params 'name'"), <<>>)
    ELSE IF ~Has(p, "type")
    THEN Result(Nil, Error("delete record: missing required params 'type'"), <<>>)
    ELSE IF ~Has(p, "value")
    THEN Result(Nil, Error("delete record: missing required params 'value'"), <<>>)
    ELSE IF ~Has(p, "ttl")
    THEN Result(Nil, Error("delete record: missing required params 'value'"), <<>>)
    ELSE Result(Nil, Nil, <<>>)

-----------------------------------------------------------------------------
(* Execute entry points *)

\* Create_Tag sending the tag without its value
Create_Tag_NoValue(p, e) ==
    LET input == CreateTagsInput
        b == setFieldWithType(Get(p, "resource"), input, <<"Resources">>, awsstringslice,
                              e.nilScalar)
        full == [b.obj EXCEPT !.Tags = <<Tag(Sprint(Get(p, "key")), "")>>]
        issued == <<Call("CreateTags", full, e.resp)>>
    IN IF ~IsNil(b.err) THEN Result(Nil, b.err, <<>>)
       ELSE IF ~IsNil(e.resp.err)
       THEN Result(Nil, Error("create tag: " \o ErrorString(e.resp.err)), issued)
       ELSE Result(e.resp.out, Nil, issued)

Create_Tag(p, e) ==
    LET input == CreateTagsInput
        b == setFieldWithType(Get(p, "resource"), input, <<"Resources">>, awsstringslice,
                              e.nilScalar)
        full == [b.obj EXCEPT !.Tags = <<Tag(Sprint(Get(p, "key")), Sprint(Get(p, "value")))>>]
        issued == <<Call("CreateTags", full, e.resp)>>
    IN IF ~IsNil(b.err) THEN Result(Nil, b.err, <<>>)
       ELSE IF ~IsNil(e.resp.err)
       THEN Result(Nil, Error("create tag: " \o ErrorString(e.resp.err)), issued)
       ELSE Result(e.resp.out, Nil, issued)

Delete_Tag(p, e) ==
    LET input == DeleteTagsInput
        b == setFieldWithType(Get(p, "resource"), input, <<"Resources">>, awsstringslice,
                              e.nilScalar)
        full == [b.obj EXCEPT !.Tags = <<Tag(Sprint(Get(p, "key")), Sprint(Get(p, "value")))>>]
        issued == <<Call("DeleteTags", full, e.resp)>>
    IN IF ~IsNil(b.err) THEN Result(Nil, b.err, <<>>)
       ELSE IF ~IsNil(e.resp.err)
       THEN Result(Nil, Error("delete tag: " \o ErrorString(e.resp.err)), issued)
       ELSE Result(e.resp.out, Nil, issued)

Update_Securitygroup(p, e) ==
    LET ip == buildIpPermissionsFromParams(p)
        inbound == Get(p, "inbound")
        outbound == Get(p, "outbound")
        new(struct) == [SecurityGroupRuleInput(struct) EXCEPT !.IpPermissions = ip.perms]
        input == IF IsString(outbound)
                 THEN IF outbound.v = "authorize"
                      THEN new("AuthorizeSecurityGroupEgressInput")
                      ELSE new("RevokeSecurityGroupEgressInput")
                 ELSE IF inbound.v = "authorize"
                      THEN new("AuthorizeSecurityGroupIngressInput")
                      ELSE new("RevokeSecurityGroupIngressInput")
        b == setFieldWithType(Get(p, "id"), input, <<"GroupId">>, awsstr, e.nilScalar)
        issued == <<Call(RuleApi(input.struct), b.obj, e.resp)>>
    IN IF ~IsNil(ip.err) THEN Result(Nil, ip.err, <<>>)
       ELSE IF IsString(inbound) /\ inbound.v \notin {"authorize", "revoke"}
       THEN Result(Nil, Error("'inbound' parameter expect 'authorize' or 'revoke', got "
                              \o inbound.v), <<>>)
       ELSE IF IsString(outbound) /\ outbound.v \notin {"authorize", "revoke"}
       THEN Result(Nil, Error("'outbound' parameter expect 'authorize' or 'revoke', got "
                              \o outbound.v), <<>>)
       ELSE IF ~IsString(inbound) /\ ~IsString(outbound)
       THEN Result(Nil, Error("expect either 'inbound' or 'outbound' parameter"), <<>>)
       ELSE IF ~IsNil(b.err) THEN Result(Nil, b.err, <<>>)
       ELSE IF ~IsNil(e.resp.err)
       THEN Result(Nil, Error("update securitygroup: " \o ErrorString(e.resp.err)), issued)
       ELSE Result(e.resp.out, Nil, issued)

\* filepath.Join(dir, file) and the file part of filepath.Split(path)
PathJoin(dir, file) == IF dir = "" THEN file ELSE dir \o "/" \o file
Base(path) ==
    LET slashes == { k \in 1..Len(path) : SubSeq(path, k, k) = "/" }
    IN IF slashes = {} THEN path
       ELSE SubSeq(path, (CHOOSE k \in slashes : \A j \in slashes : j <= k) + 1, Len(path))

\* an entry point that aborts with a runtime panic, and one that wrote files
Panicked == [val |-> Nil, err |-> Nil, calls |-> <<>>, panic |-> TRUE]
ResultWriting(val, err, issued, wrote) ==
    [val |-> val, err |-> err, calls |-> issued, wrote |-> wrote]

\* e.keygen is the outcome of console.GenerateSSHKeyPair, e.write that of
\* ioutil.WriteFile; e.stat is the outcome of os.Stat on the key's path
Create_Keypair(p, e) ==
    LET b == setFieldWithType(Get(p, "name"), ImportKeyPairInput, <<"KeyName">>, awsstr,
                              e.nilScalar)
        privKeyPath == PathJoin(e.keyDir, Sprint(Get(p, "name")) \o ".pem")
        input == [b.obj EXCEPT !.PublicKeyMaterial = Str("ssh-rsa pub")]
        issued == <<Call("ImportKeyPair", input, e.resp)>>
    IN IF ~IsNil(b.err) THEN Result(Nil, b.err, <<>>)
       ELSE IF e.keygen = "error"
       THEN Result(Nil, Error("generating key: rsa: no entropy"), <<>>)
       ELSE IF e.stat \in {"file", "dir"}
       THEN Result(Nil, Error("saving private key: file already exists at path: "
                              \o privKeyPath), <<>>)
       ELSE IF e.write = "error"
       THEN Result(Nil, Error("saving private key: open " \o privKeyPath
                              \o ": permission denied"), <<>>)
       ELSE IF ~IsNil(e.resp.err)
       THEN ResultWriting(Nil, Error("create key: " \o ErrorString(e.resp.err)), issued,
                          <<privKeyPath>>)
       ELSE ResultWriting(Str(e.resp.out.body.KeyName), Nil, issued, <<privKeyPath>>)

PutObjectInput == [struct |-> "PutObjectInput", Body |-> Nil, Key |-> Nil, Bucket |-> Nil]

\* os.Open fails on a path that os.Stat cannot find or cannot reach
Create_S3object(p, e) ==
    IF ~IsString(Get(p, "file")) THEN Panicked
    ELSE IF e.stat = "notexist"
    THEN Result(Nil, Error("open " \o Get(p, "file").v \o ": no such file or directory"), <<>>)
    ELSE IF e.stat = "error"
    THEN Result(Nil, Error("open " \o Get(p, "file").v \o ": permission denied"), <<>>)
    ELSE
    LET n == Get(p, "name")
        fileName == IF IsString(n) /\ n.v # "" THEN n.v ELSE Base(Get(p, "file").v)
        input == [PutObjectInput EXCEPT !.Body = Str(Get(p, "file").v),
                                        !.Key = Str(fileName)]
        b == setFieldWithType(Get(p, "bucket"), input, <<"Bucket">>, awsstr, e.nilScalar)
        issued == <<Call("PutObject", b.obj, e.resp)>>
    IN IF ~IsNil(b.err) THEN Result(Nil, b.err, <<>>)
       ELSE IF ~IsNil(e.resp.err)
       THEN Result(Nil, Error("create s3object: " \o ErrorString(e.resp.err)), issued)
       ELSE Result(e.resp.out, Nil, issued)

\* request structs of route53; a pointer field holds the struct pointed to
ChangeResourceRecordSetsInput ==
    [struct |-> "ChangeResourceRecordSetsInput", HostedZoneId |-> Nil, ChangeBatch |-> Nil]
ResourceRecord == [Value |-> Nil]
ResourceRecordSet(records) ==
    [Name |-> Nil, Type |-> Nil, TTL |-> Nil, ResourceRecords |-> records]
Change(set) == [Action |-> Nil, ResourceRecordSet |-> set]
ChangeBatch(changes) == [Comment |-> Nil, Changes |-> changes]

\* input as the provider sees it: input.ChangeBatch.Changes[0] points to
\* change, and change.ResourceRecordSet.ResourceRecords[0] to resourceRecord
Linked(input, change, resourceRecord) ==
    [input EXCEPT !.ChangeBatch.Changes =
        <<[change EXCEPT !.ResourceRecordSet.ResourceRecords = <<resourceRecord>>]>>]

\* the first error of a sequence of binder results, Nil when none failed
RECURSIVE FirstErr(_)
FirstErr(bs) ==
    IF Len(bs) = 0 THEN Nil
    ELSE IF ~IsNil(bs[1].err) THEN bs[1].err
    ELSE FirstErr(Tail(bs))

\* Create_Record binding 'type' onto the path of the record's name
Create_Record_TypeOntoName(p, e) ==
    LET ns == e.nilScalar
        b1 == setFieldWithType(Get(p, "zone"), ChangeResourceRecordSetsInput,
                               <<"HostedZoneId">>, awsstr, ns)
        input == [b1.obj EXCEPT !.ChangeBatch = ChangeBatch(<<>>)]
        b2 == setFieldWithType(Str("CREATE"), Change(ResourceRecordSet(<<>>)),
                               <<"Action">>, awsstr, ns)
        b3 == setFieldWithType(Get(p, "name"), b2.obj, <<"ResourceRecordSet", "Name">>,
                               awsstr, ns)
        b4 == setFieldWithType(Get(p, "type"), b3.obj, <<"ResourceRecordSet", "Name">>,
                               awsstr, ns)
        b5 == setFieldWithType(Get(p, "ttl"), b4.obj, <<"ResourceRecordSet", "TTL">>,
                               awsint64, ns)
        b6 == setFieldWithType(Get(p, "value"), ResourceRecord, <<"Value">>, awsstr, ns)
        b7 == IF Has(p, "comment")
              THEN setFieldWithType(Get(p, "comment"), input, <<"ChangeBatch", "Comment">>,
                                    awsstr, ns)
              ELSE [err |-> Nil, obj |-> input]
        err == FirstErr(<<b1, b2, b3, b4, b5, b6, b7>>)
        call == Call("ChangeResourceRecordSets", Linked(b7.obj, b5.obj, b6.obj), e.resp)
    IN IF ~IsNil(err) THEN Result(Nil, err, <<>>)
       ELSE IF ~IsNil(e.resp.err)
       THEN Result(Nil, Error("create record: " \o ErrorString(e.resp.err)), <<call>>)
       ELSE Result(Str(e.resp.out.body.ChangeInfo.Id), Nil, <<call>>)

\* Create_Record issuing the call a second time when the first one failed
Create_Record_RetryOnce(p, e) ==
    LET ns == e.nilScalar
        b1 == setFieldWithType(Get(p, "zone"), ChangeResourceRecordSetsInput,
                               <<"HostedZoneId">>, awsstr, ns)
        input == [b1.obj EXCEPT !.ChangeBatch = ChangeBatch(<<>>)]
        b2 == setFieldWithType(Str("CREATE"), Change(ResourceRecordSet(<<>>)),
                               <<"Action">>, awsstr, ns)
        b3 == setFieldWithType(Get(p, "name"), b2.obj, <<"ResourceRecordSet", "Name">>,
                               awsstr, ns)
        b4 == setFieldWithType(Get(p, "type"), b3.obj, <<"ResourceRecordSet", "Type">>,
                               awsstr, ns)
        b5 == setFieldWithType(Get(p, "ttl"), b4.obj, <<"ResourceRecordSet", "TTL">>,
                               awsint64, ns)
        b6 == setFieldWithType(Get(p, "value"), ResourceRecord, <<"Value">>, awsstr, ns)
        b7 == IF Has(p, "comment")
              THEN setFieldWithType(Get(p, "comment"), input, <<"ChangeBatch", "Comment">>,
                                    awsstr, ns)
              ELSE [err |-> Nil, obj |-> input]
        err == FirstErr(<<b1, b2, b3, b4, b5, b6, b7>>)
        call == Call("ChangeResourceRecordSets", Linked(b7.obj, b5.obj, b6.obj), e.resp)
    IN IF ~IsNil(err) THEN Result(Nil, err, <<>>)
       ELSE IF ~IsNil(e.resp.err)
       THEN Result(Nil, Error("create record: " \o ErrorString(e.resp.err)), <<call, call>>)
       ELSE Result(Str(e.resp.out.body.ChangeInfo.Id), Nil, <<call>>)

Create_Record(p, e) ==
    LET ns == e.nilScalar
        b1 == setFieldWithType(Get(p, "zone"), ChangeResourceRecordSetsInput,
                               <<"HostedZoneId">>, awsstr, ns)
        input == [b1.obj EXCEPT !.ChangeBatch = ChangeBatch(<<>>)]
        b2 == setFieldWithType(Str("CREATE"), Change(ResourceRecordSet(<<>>)),
                               <<"Action">>, awsstr, ns)
        b3 == setFieldWithType(Get(p, "name"), b2.obj, <<"ResourceRecordSet", "Name">>,
                               awsstr, ns)
        b4 == setFieldWithType(Get(p, "type"), b3.obj, <<"ResourceRecordSet", "Type">>,
                               awsstr, ns)
        b5 == setFieldWithType(Get(p, "ttl"), b4.obj, <<"ResourceRecordSet", "TTL">>,
                               awsint64, ns)
        b6 == setFieldWithType(Get(p, "value"), ResourceRecord, <<"Value">>, awsstr, ns)
        b7 == IF Has(p, "comment")
              THEN setFieldWithType(Get(p, "comment"), input, <<"ChangeBatch", "Comment">>,
                                    awsstr, ns)
              ELSE [err |-> Nil, obj |-> input]
        err == FirstErr(<<b1, b2, b3, b4, b5, b6, b7>>)
        call == Call("ChangeResourceRecordSets", Linked(b7.obj, b5.obj, b6.obj), e.resp)
    IN IF ~IsNil(err) THEN Result(Nil, err, <<>>)
       ELSE IF ~IsNil(e.resp.err)
       THEN Result(Nil, Error("create record: " \o ErrorString(e.resp.err)), <<call>>)
       ELSE Result(Str(e.resp.out.body.ChangeInfo.Id), Nil, <<call>>)


\* Call executor: applies the setters to the request in order, stopping at
\* the first binder failure, calls the provider function and returns its
\* output or its error wrapped with the description.
RECURSIVE ApplySetters(_, _, _)
ApplySetters(setters, input, nilScalar) ==
    IF Len(setters) = 0 THEN [err |-> Nil, obj |-> input]
    ELSE LET b == setFieldWithType(setters[1].val, input, setters[1].fieldPath,
                                   setters[1].fieldType, nilScalar)
         IN IF ~IsNil(b.err) THEN b
            ELSE ApplySetters(Tail(setters), b.obj, nilScalar)

driverCall_execute(call, input, e) ==
    LET b == ApplySetters(call.setters, input, e.nilScalar)
        issued == <<Call(call.fn, b.obj, e.resp)>>
    IN IF ~IsNil(b.err) THEN Result(Nil, b.err, <<>>)
       ELSE IF ~IsNil(e.resp.err)
       THEN Result(Nil, Error(call.desc \o ": " \o ErrorString(e.resp.err)), issued)
       ELSE Result(e.resp.out, Nil, issued)

DescribeInstanceAttributeInput(id) ==
    [struct |-> "DescribeInstanceAttributeInput", Attribute |-> Str("groupSet"),
     InstanceId |-> Str(id)]

\* the instance field is named as the setters of Attach_Securitygroup and
\* Detach_Securitygroup address it
ModifyInstanceAttributeInput ==
    [struct |-> "ModifyInstanceAttributeInput", InstanceID |-> Nil, Groups |-> Nil]

\* [groups, err, calls] for the provider's response resp
fetchInstanceSecurityGroups(id, resp) ==
    LET issued == <<Call("DescribeInstanceAttribute", DescribeInstanceAttributeInput(id), resp)>>
    IN IF ~IsNil(resp.err)
       THEN [groups |-> <<>>, err |-> resp.err, calls |-> issued]
       ELSE [groups |-> resp.out.body.Groups, err |-> Nil, calls |-> issued]

\* removing only the first occurrence of s
RECURSIVE removeString_First(_, _)
removeString_First(arr, s) ==
    IF Len(arr) = 0 THEN <<>>
    ELSE IF arr[1] = s THEN Tail(arr)
    ELSE <<arr[1]>> \o removeString_First(Tail(arr), s)

RECURSIVE removeString(_, _)
removeString(arr, s) ==
    IF Len(arr) = 0 THEN <<>>
    ELSE IF arr[1] # s THEN <<arr[1]>> \o removeString(Tail(arr), s)
    ELSE removeString(Tail(arr), s)

\* e.fetch is the provider's response to DescribeInstanceAttribute, e.resp
\* its response to ModifyInstanceAttribute
Attach_Securitygroup(p, e) ==
    IF ~IsString(Get(p, "instance"))
    THEN Result(Nil, Error("missing 'instance' param"), <<>>)
    ELSE
    LET instance == Get(p, "instance").v
        f == fetchInstanceSecurityGroups(instance, e.fetch)
        groups == Append(f.groups, Sprint(Get(p, "id")))
        call == [fn |-> "ModifyInstanceAttribute",
                 setters |-> <<[val |-> Str(instance), fieldPath |-> <<"InstanceID">>,
                                fieldType |-> awsstr],
                               [val |-> Strs(groups), fieldPath |-> <<"Groups">>,
                                fieldType |-> awsstringslice]>>,
                 desc |-> "attach securitygroup"]
        r == driverCall_execute(call, ModifyInstanceAttributeInput, e)
    IN IF ~IsNil(f.err)
       THEN Result(Nil, Error("fetching securitygroups for instance " \o instance \o ": "
                              \o ErrorString(f.err)), f.calls)
       ELSE Result(r.val, r.err, f.calls \o r.calls)

Detach_Securitygroup(p, e) ==
    IF ~IsString(Get(p, "instance"))
    THEN Result(Nil, Error("missing 'instance' param"), <<>>)
    ELSE
    LET instance == Get(p, "instance").v
        f == fetchInstanceSecurityGroups(instance, e.fetch)
        cleaned == removeString(f.groups, Sprint(Get(p, "id")))
        call == [fn |-> "ModifyInstanceAttribute",
                 setters |-> <<[val |-> Str(instance), fieldPath |-> <<"InstanceID">>,
                                fieldType |-> awsstr],
                               [val |-> Strs(cleaned), fieldPath |-> <<"Groups">>,
                                fieldType |-> awsstringslice]>>,
                 desc |-> "detach securitygroup"]
        r == driverCall_execute(call, ModifyInstanceAttributeInput, e)
    IN IF ~IsNil(f.err)
       THEN Result(Nil, Error("fetching securitygroups for instance " \o instance \o ": "
                              \o ErrorString(f.err)), f.calls)
       ELSE Result(r.val, r.err, f.calls \o r.calls)

-----------------------------------------------------------------------------
(* Check_* execute entry points: each builds a checker and runs check().   *)
(* Check_X(p, e) is the part before c.check(): [panic, err, c].            *)

DescribeNetworkInterfacesInput ==
    [struct |-> "DescribeNetworkInterfacesInput", Filters |-> Nil]
DescribeLoadBalancersInput ==
    [struct |-> "DescribeLoadBalancersInput", LoadBalancerArns |-> Nil]

NoChecker ==
    [fetch |-> "none", description |-> "", timeout |-> 0, frequency |-> 0,
     expect |-> "", api |-> "", input |-> Nil]

Check_Instance(p, e) ==
    LET b == setFieldWithType(Get(p, "id"), DescribeInstancesInput, <<"InstanceIds">>,
                              awsstringslice, e.nilScalar)
    IN IF ~IsNil(b.err) THEN [panic |-> FALSE, err |-> b.err, c |-> NoChecker]
       ELSE IF ~IsInt(Get(p, "timeout"))
       THEN [panic |-> TRUE, err |-> Nil, c |-> NoChecker]
       ELSE [panic |-> FALSE, err |-> Nil,
             c |-> [fetch |-> "Check_Instance",
                    description |-> "instance " \o Sprint(Get(p, "id")),
                    timeout |-> Get(p, "timeout").v,
                    frequency |-> Frequency,
                    expect |-> Sprint(Get(p, "state")),
                    api |-> "DescribeInstances",
                    input |-> b.obj]]

Check_Securitygroup(p, e) ==
    LET input == [DescribeNetworkInterfacesInput EXCEPT
                    !.Filters = <<[Name |-> Str("group-id"),
                                   Values |-> Strs(<<Sprint(Get(p, "id"))>>)]>>]
    IN IF ~IsInt(Get(p, "timeout"))
       THEN [panic |-> TRUE, err |-> Nil, c |-> NoChecker]
       ELSE [panic |-> FALSE, err |-> Nil,
             c |-> [fetch |-> "Check_Securitygroup",
                    description |-> "securitygroup " \o Sprint(Get(p, "id")),
                    timeout |-> Get(p, "timeout").v,
                    frequency |-> Frequency,
                    expect |-> Sprint(Get(p, "state")),
                    api |-> "DescribeNetworkInterfaces",
                    input |-> input]]

Check_Loadbalancer(p, e) ==
    LET b == setFieldWithType(Get(p, "id"), DescribeLoadBalancersInput,
                              <<"LoadBalancerArns">>, awsstringslice, e.nilScalar)
    IN IF ~IsNil(b.err) THEN [panic |-> FALSE, err |-> b.err, c |-> NoChecker]
       ELSE IF ~IsInt(Get(p, "timeout"))
       THEN [panic |-> TRUE, err |-> Nil, c |-> NoChecker]
       ELSE [panic |-> FALSE, err |-> Nil,
             c |-> [fetch |-> "Check_Loadbalancer",
                    description |-> "loadbalancer " \o Sprint(Get(p, "id")),
                    timeout |-> Get(p, "timeout").v,
                    frequency |-> Frequency,
                    expect |-> Sprint(Get(p, "state")),
                    api |-> "DescribeLoadBalancers",
                    input |-> b.obj]]

\* The fetch closures: [got, err] for the provider's response resp.

Check_Instance_fetchFunc(p, resp) ==
    IF ~IsNil(resp.err)
    THEN IF IsAwsErr(resp.err)
         THEN IF resp.err.code = "InstanceNotFound"
              THEN [got |-> notFoundState, err |-> Nil]
              ELSE [got |-> notFoundState, err |-> Nil]
         ELSE [got |-> "", err |-> resp.err]
    ELSE LET res == resp.out.body.Reservations
             instances == IF Len(res) > 0 THEN res[1].Instances ELSE <<>>
             hits == { k \in 1..Len(instances) : Str(instances[k].InstanceId) = Get(p, "id") }
         IN IF hits # {}
            THEN [got |-> instances[CHOOSE k \in hits : \A j \in hits : k <= j].State,
                  err |-> Nil]
            ELSE [got |-> notFoundState, err |-> Nil]

RECURSIVE Join(_, _)
Join(ss, sep) ==
    IF Len(ss) = 0 THEN ""
    ELSE IF Len(ss) = 1 THEN ss[1]
    ELSE ss[1] \o sep \o Join(Tail(ss), sep)

Check_Securitygroup_fetchFunc(p, resp) ==
    IF ~IsNil(resp.err)
    THEN [got |-> "", err |-> resp.err]
    ELSE IF Len(resp.out.body.NetworkInterfaces) = 0
    THEN [got |-> "unused", err |-> Nil]
    ELSE [got |-> "used by " \o Join(resp.out.body.NetworkInterfaces, ", "), err |-> Nil]

\* the fetch closure returning every provider error to check()
Check_Loadbalancer_fetchFunc_HardError(p, resp) ==
    IF ~IsNil(resp.err)
    THEN [got |-> "", err |-> resp.err]
    ELSE LET lbs == resp.out.body.LoadBalancers
             hits == { k \in 1..Len(lbs) : Str(lbs[k].LoadBalancerArn) = Get(p, "id") }
         IN IF hits # {}
            THEN [got |-> lbs[CHOOSE k \in hits : \A j \in hits : k <= j].State,
                  err |-> Nil]
            ELSE [got |-> notFoundState, err |-> Nil]

Check_Loadbalancer_fetchFunc(p, resp) ==
    IF ~IsNil(resp.err)
    THEN IF IsAwsErr(resp.err)
         THEN IF resp.err.code = "LoadBalancerNotFound"
              THEN [got |-> notFoundState, err |-> Nil]
              ELSE [got |-> notFoundState, err |-> Nil]
         ELSE [got |-> "", err |-> resp.err]
    ELSE LET lbs == resp.out.body.LoadBalancers
             hits == { k \in 1..Len(lbs) : Str(lbs[k].LoadBalancerArn) = Get(p, "id") }
         IN IF hits # {}
            THEN [got |-> lbs[CHOOSE k \in hits : \A j \in hits : k <= j].State,
                  err |-> Nil]
            ELSE [got |-> notFoundState, err |-> Nil]

\* c.fetchFunc()
fetchFunc(chk, p, resp) ==
    CASE chk.fetch = "Check_Instance" -> Check_Instance_fetchFunc(p, resp)
      [] chk.fetch = "Check_Securitygroup" -> Check_Securitygroup_fetchFunc(p, resp)
      [] OTHER -> Check_Loadbalancer_fetchFunc(p, resp)

-----------------------------------------------------------------------------
(* Inputs: parameter mappings and provider responses *)

Timeouts == { GoInt(t) : t \in (0 - 1)..MaxTimeout } \cup { Str("10") }

One(keys) == [k \in keys |-> {Str(k \o "-1")}]

InstanceParams ==
    ParamMaps({"id", "state", "timeout"},
              [id |-> {Str("i-1")},
               state |-> {Str("running"), Str(notFoundState), Str("bogus"), GoInt(1)},
               timeout |-> Timeouts])
SecuritygroupParams ==
    ParamMaps({"id", "state", "timeout"},
              [id |-> {Str("sg-1")},
               state |-> {Str("unused"), Str("bogus")},
               timeout |-> Timeouts])
LoadbalancerParams ==
    ParamMaps({"id", "state", "timeout"},
              [id |-> {Str("lb-1")},
               state |-> {Str("active"), Str(notFoundState), Str("bogus")},
               timeout |-> Timeouts])
TagParams == ParamMaps({"resource", "key", "value"}, One({"resource", "key", "value"}))
AttachParams == ParamMaps({"id", "instance"}, One({"id", "instance"}))
PolicyParams == ParamMaps({"arn", "user", "group"}, One({"arn", "user", "group"}))
AccesskeyParams == ParamMaps({"user"}, One({"user"}))
KeypairParams == ParamMaps({"name"}, [name |-> {Str("k1"), Str("")}])
S3objectParams ==
    ParamMaps({"bucket", "file", "name"},
              [bucket |-> {Str("b1")}, file |-> {Str("/tmp/f"), GoInt(3)},
               name |-> {Str("n1")}])
RecordParams ==
    ParamMaps({"zone", "name", "type", "value", "ttl"},
              [zone |-> {Str("z1")}, name |-> {Str("www")}, type |-> {Str("A")},
               value |-> {Str("1.2.3.4")}, ttl |-> {GoInt(60)}])
UpdateSecuritygroupParams ==
    ParamMaps({"id", "cidr", "protocol", "portrange", "inbound", "outbound"},
              [id |-> {Str("sg-1")},
               cidr |-> {Str("10.0.0.0/8")},
               protocol |-> {Str("tcp"), Str("any")},
               portrange |-> {GoInt(80), Str("80-90"), Str("x")},
               inbound |-> {Str("authorize"), Str("bogus")},
               outbound |-> {Str("revoke"), Str("bogus")}])

Resp(out, err) == [out |-> out, err |-> err]
NoResp == Resp(Nil, Nil)

\* what a provider answers to a request carrying DryRun = true (a double may
\* also answer without error)
DryRunResps ==
    { Resp(Nil, AwsErr("DryRunOperation")),
      Resp(Nil, AwsErr("InvalidInstanceID.NotFound")),
      Resp(Nil, AwsErr("ResourceNotFoundException")),
      Resp(Nil, AwsErr("UnauthorizedOperation")),
      Resp(Nil, Error("connection reset")),
      Resp(Output("dryrun", <<>>), Nil) }

ExecResps(api) ==
    { Resp(Output(api, <<>>), Nil),
      Resp(Nil, AwsErr("InvalidID.NotFound")),
      Resp(Nil, AwsErr("UnauthorizedOperation")),
      Resp(Nil, Error("connection reset")) }

DescribeInstancesResps ==
    { Resp(Output("DescribeInstances", [Reservations |-> <<>>]), Nil),
      Resp(Nil, AwsErr("InstanceNotFound")),
      Resp(Nil, AwsErr("UnauthorizedOperation")),
      Resp(Nil, Error("connection reset")) }
    \cup
    { Resp(Output("DescribeInstances",
                  [Reservations |->
                      <<[Instances |-> <<[InstanceId |-> "i-1", State |-> st]>>]>>]), Nil) :
        st \in {"pending", "running"} }

DescribeNetworkInterfacesResps ==
    { Resp(Output("DescribeNetworkInterfaces", [NetworkInterfaces |-> nis]), Nil) :
        nis \in {<<>>, <<"eni-1">>, <<"eni-1", "eni-2">>} }
    \cup
    { Resp(Nil, AwsErr("UnauthorizedOperation")), Resp(Nil, Error("connection reset")) }

DescribeLoadBalancersResps ==
    { Resp(Output("DescribeLoadBalancers", [LoadBalancers |-> <<>>]), Nil),
      Resp(Nil, AwsErr("LoadBalancerNotFound")),
      Resp(Nil, AwsErr("AccessDenied")),
      Resp(Nil, Error("connection reset")) }
    \cup
    { Resp(Output("DescribeLoadBalancers",
                  [LoadBalancers |-> <<[LoadBalancerArn |-> "lb-1", State |-> st]>>]), Nil) :
        st \in {"provisioning", "active"} }

FetchResps(api) ==
    CASE api = "DescribeInstances" -> DescribeInstancesResps
      [] api = "DescribeNetworkInterfaces" -> DescribeNetworkInterfacesResps
      [] OTHER -> DescribeLoadBalancersResps

DefaultEnv ==
    [resp |-> NoResp, suffix |-> 0, nilScalar |-> FALSE, keyDir |-> "",
     stat |-> "notexist", keygen |-> "ok", write |-> "ok", fetch |-> NoResp]
ProviderEnvs(resps) ==
    { [DefaultEnv EXCEPT !.resp = r, !.suffix = x, !.nilScalar = ns] :
        r \in resps, x \in 0..MaxSuffix, ns \in BOOLEAN }
LocalEnvs ==
    { [DefaultEnv EXCEPT !.keyDir = d, !.stat = st] :
        d \in {"", "/keys"}, st \in {"notexist", "error", "dir", "file"} }

\* the local outcomes and provider responses Create_Keypair can meet
KeypairEnvs ==
    { [le EXCEPT !.keygen = kg, !.write = w, !.resp = r] :
        le \in LocalEnvs, kg \in {"ok", "error"}, w \in {"ok", "error"},
        r \in { Resp(Output("ImportKeyPair", [KeyName |-> "k1"]), Nil),
                Resp(Nil, AwsErr("InvalidKeyPair.Duplicate")) } }

S3objectEnvs ==
    { [le EXCEPT !.resp = r] : le \in LocalEnvs, r \in ExecResps("PutObject") }

CreateRecordParams ==
    ParamMaps({"zone", "name", "type", "value", "ttl", "comment"},
              [zone |-> {Str("z1")}, name |-> {Str("www")}, type |-> {Str("A")},
               value |-> {Str("1.2.3.4")}, ttl |-> {GoInt(60), Str("soon")},
               comment |-> {Str("c1")}])

ChangeResourceRecordSetsResps ==
    { Resp(Output("ChangeResourceRecordSets", [ChangeInfo |-> [Id |-> "change-1"]]), Nil),
      Resp(Nil, AwsErr("InvalidChangeBatch")),
      Resp(Nil, Error("connection reset")) }

DryRunOps ==
    {"Attach_Securitygroup_DryRun", "Detach_Securitygroup_DryRun", "Attach_Policy_DryRun",
     "Detach_Policy_DryRun", "Create_Accesskey_DryRun", "Check_Instance_DryRun",
     "Check_Securitygroup_DryRun", "Check_Loadbalancer_DryRun", "Create_Tag_DryRun",
     "Delete_Tag_DryRun", "Create_Keypair_DryRun", "Update_Securitygroup_DryRun",
     "Create_S3object_DryRun", "Create_Record_DryRun", "Delete_Record_DryRun"}
CheckOps == {"Check_Instance", "Check_Securitygroup", "Check_Loadbalancer"}

-----------------------------------------------------------------------------
(* State machine *)

NoRet == [kind |-> "none", val |-> Nil, err |-> Nil]

\* the invocations that may run concurrently, and one not yet started
Procs == {1, 2}
NoInvocation ==
    [pc |-> "idle", op |-> "none", params |-> <<>>, fetch |-> NoResp, calls |-> <<>>,
     ret |-> NoRet]
Return(val, err) == [kind |-> "return", val |-> val, err |-> err]
Panic == [kind |-> "panic", val |-> Nil, err |-> Nil]

InitEntry ==
    /\ op = "none"
    /\ params = <<>>
    /\ calls = <<>>
    /\ ret = NoRet
    /\ pc = "idle"
    /\ c = NoChecker
    /\ now = 0
    /\ timerAt = 0
    /\ tickAt = 0
    /\ trace = <<>>
    /\ env = DefaultEnv
    /\ files = <<>>

Init ==
    /\ InitEntry
    /\ instanceGroups = <<>>
    /\ initialGroups = <<>>
    /\ inv = [i \in Procs |-> NoInvocation]
    /\ events = <<>>

NoCheck == c' = NoChecker /\ now' = 0 /\ timerAt' = 0 /\ tickAt' = 0 /\ trace' = <<>>

\* entry point name, called with p in environment e, runs to completion
\* with result r
InvokeIn(name, p, e, r) ==
    /\ op' = name
    /\ params' = p
    /\ env' = e
    /\ calls' = r.calls
    /\ ret' = IF "panic" \in DOMAIN r THEN Panic ELSE Return(r.val, r.err)
    /\ files' = IF "wrote" \in DOMAIN r THEN r.wrote ELSE <<>>
    /\ pc' = "done"
    /\ NoCheck
    /\ UNCHANGED sgvars

Invoke(name, p, r) == InvokeIn(name, p, DefaultEnv, r)

Call_Attach_Securitygroup_DryRun ==
    /\ pc = "idle"
    /\ \E p \in AttachParams :
           Invoke("Attach_Securitygroup_DryRun", p, Attach_Securitygroup_DryRun(p, DefaultEnv))
Call_Detach_Securitygroup_DryRun ==
    /\ pc = "idle"
    /\ \E p \in AttachParams :
           Invoke("Detach_Securitygroup_DryRun", p, Detach_Securitygroup_DryRun(p, DefaultEnv))
Call_Attach_Policy_DryRun ==
    /\ pc = "idle"
    /\ \E p \in PolicyParams :
           Invoke("Attach_Policy_DryRun", p, Attach_Policy_DryRun(p, DefaultEnv))
Call_Detach_Policy_DryRun ==
    /\ pc = "idle"
    /\ \E p \in PolicyParams :
           Invoke("Detach_Policy_DryRun", p, Detach_Policy_DryRun(p, DefaultEnv))
Call_Create_Accesskey_DryRun ==
    /\ pc = "idle"
    /\ \E p \in AccesskeyParams :
           Invoke("Create_Accesskey_DryRun", p, Create_Accesskey_DryRun(p, DefaultEnv))
Call_Check_Instance_DryRun ==
    /\ pc = "idle"
    /\ \E p \in InstanceParams, e \in ProviderEnvs(DryRunResps) :
           Invoke("Check_Instance_DryRun", p, Check_Instance_DryRun(p, e))
Call_Check_Securitygroup_DryRun ==
    /\ pc = "idle"
    /\ \E p \in SecuritygroupParams :
           Invoke("Check_Securitygroup_DryRun", p, Check_Securitygroup_DryRun(p, DefaultEnv))
Call_Check_Loadbalancer_DryRun ==
    /\ pc = "idle"
    /\ \E p \in LoadbalancerParams :
           Invoke("Check_Loadbalancer_DryRun", p, Check_Loadbalancer_DryRun(p, DefaultEnv))
Call_Create_Tag_DryRun ==
    /\ pc = "idle"
    /\ \E p \in TagParams, e \in ProviderEnvs(DryRunResps) :
           Invoke("Create_Tag_DryRun", p, Create_Tag_DryRun(p, e))
Call_Delete_Tag_DryRun ==
    /\ pc = "idle"
    /\ \E p \in TagParams, e \in ProviderEnvs(DryRunResps) :
           Invoke("Delete_Tag_DryRun", p, Delete_Tag_DryRun(p, e))
Call_Create_Keypair_DryRun ==
    /\ pc = "idle"
    /\ \E p \in KeypairParams, e \in LocalEnvs :
           InvokeIn("Create_Keypair_DryRun", p, e, Create_Keypair_DryRun(p, e))
Call_Update_Securitygroup_DryRun ==
    /\ pc = "idle"
    /\ \E p \in UpdateSecuritygroupParams, e \in ProviderEnvs(DryRunResps) :
           Invoke("Update_Securitygroup_DryRun", p, Update_Securitygroup_DryRun(p, e))
Call_Create_S3object_DryRun ==
    /\ pc = "idle"
    /\ \E p \in S3objectParams, e \in LocalEnvs :
           InvokeIn("Create_S3object_DryRun", p, e, Create_S3object_DryRun(p, e))
Call_Create_Record_DryRun ==
    /\ pc = "idle"
    /\ \E p \in RecordParams :
           Invoke("Create_Record_DryRun", p, Create_Record_DryRun(p, DefaultEnv))
Call_Delete_Record_DryRun ==
    /\ pc = "idle"
    /\ \E p \in RecordParams :
           Invoke("Delete_Record_DryRun", p, Delete_Record_DryRun(p, DefaultEnv))

Call_Create_Tag ==
    /\ pc = "idle"
    /\ \E p \in TagParams, e \in ProviderEnvs(ExecResps("CreateTags")) :
           Invoke("Create_Tag", p, Create_Tag(p, e))
Call_Delete_Tag ==
    /\ pc = "idle"
    /\ \E p \in TagParams, e \in ProviderEnvs(ExecResps("DeleteTags")) :
           Invoke("Delete_Tag", p, Delete_Tag(p, e))
Call_Update_Securitygroup ==
    /\ pc = "idle"
    /\ \E p \in UpdateSecuritygroupParams, e \in ProviderEnvs(ExecResps("SecurityGroupRule")) :
           Invoke("Update_Securitygroup", p, Update_Securitygroup(p, e))

Call_Create_Keypair ==
    /\ pc = "idle"
    /\ \E p \in KeypairParams, e \in KeypairEnvs :
           InvokeIn("Create_Keypair", p, e, Create_Keypair(p, e))
Call_Create_S3object ==
    /\ pc = "idle"
    /\ \E p \in S3objectParams, e \in S3objectEnvs :
           InvokeIn("Create_S3object", p, e, Create_S3object(p, e))
Call_Create_Record ==
    /\ pc = "idle"
    /\ \E p \in CreateRecordParams, e \in ProviderEnvs(ChangeResourceRecordSetsResps) :
           Invoke("Create_Record", p, Create_Record(p, e))

\* A Check_* entry point up to the first select of check(): it panics,
\* returns the binder's error, or blocks in the select with both timers armed.
EnterCheck(name, p, st) ==
    /\ op' = name
    /\ params' = p
    /\ calls' = <<>>
    /\ env' = DefaultEnv
    /\ files' = <<>>
    /\ UNCHANGED sgvars
    /\ IF st.panic
       THEN ret' = Panic /\ pc' = "done" /\ NoCheck
       ELSE IF ~IsNil(st.err)
       THEN ret' = Return(Nil, st.err) /\ pc' = "done" /\ NoCheck
       ELSE /\ ret' = NoRet
            /\ pc' = "select"
            /\ c' = st.c
            /\ now' = 0
            /\ timerAt' = st.c.timeout
            /\ tickAt' = st.c.frequency
            /\ trace' = <<>>

Call_Check_Instance ==
    /\ pc = "idle"
    /\ \E p \in InstanceParams, ns \in BOOLEAN :
           EnterCheck("Check_Instance", p, Check_Instance(p, [DefaultEnv EXCEPT !.nilScalar = ns]))
Call_Check_Securitygroup ==
    /\ pc = "idle"
    /\ \E p \in SecuritygroupParams :
           EnterCheck("Check_Securitygroup", p, Check_Securitygroup(p, DefaultEnv))
Call_Check_Loadbalancer ==
    /\ pc = "idle"
    /\ \E p \in LoadbalancerParams, ns \in BOOLEAN :
           EnterCheck("Check_Loadbalancer", p,
                      Check_Loadbalancer(p, [DefaultEnv EXCEPT !.nilScalar = ns]))

\* check() cannot make more fetches than this before its timer is ready
MaxFetches == (MaxTimeout \div Frequency) + 1

\* the timer of check() re-armed at every loop iteration
TimerReady_Rearmed == (tickAt - c.frequency) + c.timeout

\* the moment timer.C can be received from: the timer is created once,
\* before the loop, and stays ready once it has fired
TimerReady == IF timerAt > now THEN timerAt ELSE now

\* a tick that goes on polling after a match
tickOutcome_NoReturnOnMatch(chk, f) ==
    IF ~IsNil(f.err)
    THEN [done |-> TRUE,
          ret |-> Return(Nil, Error("check " \o chk.description \o ": "
                                    \o ErrorString(f.err)))]
    ELSE [done |-> FALSE, ret |-> NoRet]

\* a tick that logs a fetch error and goes on polling
tickOutcome_RetryOnError(chk, f) ==
    IF IsNil(f.err) /\ f.got = chk.expect
    THEN [done |-> TRUE, ret |-> Return(Nil, Nil)]
    ELSE [done |-> FALSE, ret |-> NoRet]

\* the body of the tick case once the fetch closure has returned f
tickOutcome(chk, f) ==
    IF ~IsNil(f.err)
    THEN [done |-> TRUE,
          ret |-> Return(Nil, Error("check " \o chk.description \o ": "
                                    \o ErrorString(f.err)))]
    ELSE IF f.got = chk.expect
    THEN [done |-> TRUE, ret |-> Return(Nil, Nil)]
    ELSE [done |-> FALSE, ret |-> NoRet]

\* a poll driven by a ticker started with check(): the next tick is due one
\* interval after the previous tick, however long the fetch took
check_tick_Ticker ==
    /\ pc = "select"
    /\ tickAt <= TimerReady
    /\ Len(trace) < MaxFetches
    /\ \E resp \in FetchResps(c.api), d \in 0..MaxFetchDur :
         LET f == fetchFunc(c, params, resp)
             out == tickOutcome(c, f)
         IN
         /\ now' = tickAt + d
         /\ trace' = Append(trace, [at |-> tickAt, dur |-> d, got |-> f.got, err |-> f.err])
         /\ calls' = Append(calls, Call(c.api, c.input, resp))
         /\ ret' = out.ret
         /\ pc' = IF out.done THEN "done" ELSE "select"
         /\ tickAt' = IF out.done THEN tickAt ELSE tickAt + c.frequency
    /\ UNCHANGED <<op, params, c, timerAt, env, files>>
    /\ UNCHANGED sgvars

\* case <-time.After(c.frequency): the select takes the tick, the fetch
\* closure runs for d seconds, and check() returns or loops to a new select
check_tick ==
    /\ pc = "select"
    /\ tickAt <= TimerReady
    /\ Len(trace) < MaxFetches
    /\ \E resp \in FetchResps(c.api), d \in 0..MaxFetchDur :
         LET f == fetchFunc(c, params, resp)
             out == tickOutcome(c, f)
         IN
         /\ now' = tickAt + d
         /\ trace' = Append(trace, [at |-> tickAt, dur |-> d, got |-> f.got, err |-> f.err])
         /\ calls' = Append(calls, Call(c.api, c.input, resp))
         /\ ret' = out.ret
         /\ pc' = IF out.done THEN "done" ELSE "select"
         /\ tickAt' = IF out.done THEN tickAt ELSE tickAt + d + c.frequency
    /\ UNCHANGED <<op, params, c, timerAt, env, files>>
    /\ UNCHANGED sgvars

\* a timer whose firing is lost when it happens while a fetch is running
check_timeout_LostWhileFetching ==
    /\ pc = "select"
    /\ timerAt >= now
    /\ TimerReady <= tickAt
    /\ now' = TimerReady
    /\ ret' = Return(Nil, Error("timeout of " \o ToString(c.timeout) \o "s expired"))
    /\ pc' = "done"
    /\ UNCHANGED <<op, params, calls, c, timerAt, tickAt, trace, env, files>>
    /\ UNCHANGED sgvars

\* case <-timer.C
check_timeout ==
    /\ pc = "select"
    /\ TimerReady <= tickAt
    /\ now' = TimerReady
    /\ ret' = Return(Nil, Error("timeout of " \o ToString(c.timeout) \o "s expired"))
    /\ pc' = "done"
    /\ UNCHANGED <<op, params, calls, c, timerAt, tickAt, trace, env, files>>
    /\ UNCHANGED sgvars

Next ==
    \/ Call_Attach_Securitygroup_DryRun
    \/ Call_Detach_Securitygroup_DryRun
    \/ Call_Attach_Policy_DryRun
    \/ Call_Detach_Policy_DryRun
    \/ Call_Create_Accesskey_DryRun
    \/ Call_Check_Instance_DryRun
    \/ Call_Check_Securitygroup_DryRun
    \/ Call_Check_Loadbalancer_DryRun
    \/ Call_Create_Tag_DryRun
    \/ Call_Delete_Tag_DryRun
    \/ Call_Create_Keypair_DryRun
    \/ Call_Update_Securitygroup_DryRun
    \/ Call_Create_S3object_DryRun
    \/ Call_Create_Record_DryRun
    \/ Call_Delete_Record_DryRun
    \/ Call_Create_Tag
    \/ Call_Delete_Tag
    \/ Call_Update_Securitygroup
    \/ Call_Create_Keypair
    \/ Call_Create_S3object
    \/ Call_Create_Record
    \/ Call_Check_Instance
    \/ Call_Check_Securitygroup
    \/ Call_Check_Loadbalancer
    \/ check_tick
    \/ check_timeout

Spec == Init /\ [][Next]_vars

\* The runtime delivers a ready timer to the blocked select, and every fetch
\* returns: a check() blocked in its select takes one of its two cases.
FairSpec == Spec /\ WF_vars(check_tick \/ check_timeout)

-----------------------------------------------------------------------------
(* Concurrent invocations of Attach_Securitygroup and Detach_Securitygroup  *)
(* on one instance.  Each invocation makes two provider calls, and the      *)
(* provider serves the calls of different invocations in any order.         *)

SgParams ==
    ParamMaps({"id", "instance"},
              [id |-> {Str("sg-1"), Str("sg-2")}, instance |-> {Str("i-1")}])

\* the group lists an instance can start with: no group twice
InitialGroupLists ==
    UNION { { g \in [1..n -> {"sg-1", "sg-2", "sg-3"}] :
                \A j, k \in 1..n : j # k => g[j] # g[k] } : n \in 0..MaxGroups }

\* a group list with every group kept once, at its first position
RECURSIVE Dedup(_)
Dedup(groups) ==
    IF Len(groups) = 0 THEN <<>>
    ELSE LET rest == Dedup(SubSeq(groups, 1, Len(groups) - 1))
             last == groups[Len(groups)]
         IN IF \E k \in 1..Len(rest) : rest[k] = last THEN rest ELSE Append(rest, last)

Run(name, p, e) ==
    IF name = "Attach_Securitygroup" THEN Attach_Securitygroup(p, e)
    ELSE Detach_Securitygroup(p, e)

SgInit ==
    /\ InitEntry
    /\ instanceGroups \in InitialGroupLists
    /\ initialGroups = instanceGroups
    /\ inv = [i \in Procs |-> NoInvocation]
    /\ events = <<>>

\* Invocation i of entry point name, from its call to the response of
\* DescribeInstanceAttribute: it returns there, or goes on to the setters
\* and ModifyInstanceAttribute.
SgFetch(i, name) ==
    \E p \in SgParams,
       fr \in { Resp(Output("DescribeInstanceAttribute", [Groups |-> instanceGroups]), Nil),
                Resp(Nil, AwsErr("InvalidInstanceID.NotFound")) } :
        LET e == [DefaultEnv EXCEPT !.fetch = fr,
                                    !.resp = Resp(Output("ModifyInstanceAttribute", <<>>), Nil)]
            r == Run(name, p, e)
        IN /\ inv' = [inv EXCEPT ![i] =
                        IF Len(r.calls) = 2
                        THEN [pc |-> "fetched", op |-> name, params |-> p, fetch |-> fr,
                              calls |-> SubSeq(r.calls, 1, 1), ret |-> NoRet]
                        ELSE [pc |-> "done", op |-> name, params |-> p, fetch |-> fr,
                              calls |-> r.calls, ret |-> Return(r.val, r.err)]]
           /\ events' = IF Len(r.calls) = 0 THEN events
                        ELSE Append(events, [proc |-> i, api |-> "DescribeInstanceAttribute"])
           /\ UNCHANGED <<instanceGroups, initialGroups>>

\* Invocation i from the response of DescribeInstanceAttribute to its
\* return: the provider replaces the instance's groups by the list of the
\* request, which it may store with every group once.
SgModify(i) ==
    \E mr \in { Resp(Output("ModifyInstanceAttribute", <<>>), Nil),
                Resp(Nil, AwsErr("InvalidGroup.NotFound")) } :
        LET e == [DefaultEnv EXCEPT !.fetch = inv[i].fetch, !.resp = mr]
            r == Run(inv[i].op, inv[i].params, e)
            sent == r.calls[2].input.Groups.v
        IN /\ inv' = [inv EXCEPT ![i].pc = "done", ![i].calls = r.calls,
                                 ![i].ret = Return(r.val, r.err)]
           /\ events' = Append(events, [proc |-> i, api |-> "ModifyInstanceAttribute"])
           /\ IF IsNil(mr.err)
              THEN instanceGroups' \in {sent, Dedup(sent)}
              ELSE instanceGroups' = instanceGroups
           /\ UNCHANGED initialGroups

Attach_Securitygroup_fetch(i) ==
    /\ inv[i].pc = "idle"
    /\ SgFetch(i, "Attach_Securitygroup")
    /\ UNCHANGED <<op, params, calls, ret, pc, c, now, timerAt, tickAt, trace, env, files>>

Detach_Securitygroup_fetch(i) ==
    /\ inv[i].pc = "idle"
    /\ SgFetch(i, "Detach_Securitygroup")
    /\ UNCHANGED <<op, params, calls, ret, pc, c, now, timerAt, tickAt, trace, env, files>>

Attach_Securitygroup_modify(i) ==
    /\ inv[i].pc = "fetched"
    /\ inv[i].op = "Attach_Securitygroup"
    /\ SgModify(i)
    /\ UNCHANGED <<op, params, calls, ret, pc, c, now, timerAt, tickAt, trace, env, files>>

Detach_Securitygroup_modify(i) ==
    /\ inv[i].pc = "fetched"
    /\ inv[i].op = "Detach_Securitygroup"
    /\ SgModify(i)
    /\ UNCHANGED <<op, params, calls, ret, pc, c, now, timerAt, tickAt, trace, env, files>>

SgNext ==
    \E i \in Procs :
        \/ Attach_Securitygroup_fetch(i)
        \/ Detach_Securitygroup_fetch(i)
        \/ Attach_Securitygroup_modify(i)
        \/ Detach_Securitygroup_modify(i)

SgSpec == SgInit /\ [][SgNext]_vars

-----------------------------------------------------------------------------
(* Properties of the convergence checker *)

\* check() was entered by the invocation
CheckRan == op \in CheckOps /\ c.fetch # "none"

NoFetchError == \A i \in 1..Len(trace) : IsNil(trace[i].err)

\* the fetches that returned the expected state
MatchAt == { i \in 1..Len(trace) : IsNil(trace[i].err) /\ trace[i].got = c.expect }

\* k: the position of the first expected value in the fetch sequence; when
\* none was observed, the earliest position a continuation can have it at
FirstMatch ==
    IF MatchAt # {} THEN CHOOSE i \in MatchAt : \A j \in MatchAt : i <= j
    ELSE Len(trace) + 1

\* time spent inside the first n fetch calls
RECURSIVE SumDur(_)
SumDur(n) == IF n = 0 THEN 0 ELSE trace[n].dur + SumDur(n - 1)

IsTimeoutError(err) == err = Error("timeout of " \o ToString(c.timeout) \o "s expired")

Returned == pc = "done" /\ ret.kind = "return"
Succeeded == Returned /\ IsNil(ret.err)

\* C1 as stated: for a fetch sequence whose first expected value is the k-th
\* and a timeout greater than k*f, check() returns success after exactly k
\* fetches.
C1_Original ==
    (pc = "done" /\ CheckRan /\ NoFetchError /\ c.timeout > FirstMatch * c.frequency)
        => (Succeeded /\ Len(trace) = FirstMatch)

\* C1 (amended): for a fetch sequence whose first expected value is the k-th
\* and a timeout greater than k*f plus the time spent inside the first k-1
\* fetch calls, check() returns success after exactly k fetches, and makes
\* no fetch once it has returned.
C1_SuccessAfterK ==
    /\ [](( /\ pc = "done" /\ CheckRan /\ NoFetchError
            /\ c.timeout > FirstMatch * c.frequency + SumDur(FirstMatch - 1))
          => (Succeeded /\ Len(trace) = FirstMatch))
    /\ [][pc = "done" => (pc' = "done" /\ trace' = trace /\ calls' = calls /\ ret' = ret)]_vars

\* pending, pending, running with a timeout above 3f: success at the 3rd fetch
C1_Witness ==
    /\ pc = "done" /\ op = "Check_Instance" /\ c.expect = "running"
    /\ Len(trace) = 3 /\ c.timeout > 3 * c.frequency
    /\ trace[1].got = "pending" /\ trace[2].got = "pending" /\ trace[3].got = "running"
    /\ Succeeded

\* C2 as stated: with a fetch that never returns the expected state, check()
\* returns a timeout error at or after T, and no fetch is invoked at T or
\* later (the timeout preempts a tick due at the same time).
C2_Original ==
    CheckRan =>
        /\ \A i \in 1..Len(trace) : trace[i].at < c.timeout
        /\ (pc = "done" /\ NoFetchError /\ MatchAt = {})
              => (IsTimeoutError(ret.err) /\ now >= c.timeout)

\* C2 (amended): with a fetch that never returns the expected state, check()
\* returns a timeout error at or after T, and no fetch is invoked later than
\* T; a tick due at exactly T may still run.
C2_NoFetchAfterTimeout ==
    CheckRan =>
        /\ \A i \in 1..Len(trace) : trace[i].at <= c.timeout
        /\ (pc = "done" /\ NoFetchError /\ MatchAt = {})
              => (IsTimeoutError(ret.err) /\ now >= c.timeout)

\* two fetches without a match, the third tick due after T: timeout
C2_Witness ==
    /\ pc = "done" /\ CheckRan /\ IsTimeoutError(ret.err)
    /\ Len(trace) = 2 /\ MatchAt = {} /\ NoFetchError
    /\ trace[2].at < c.timeout
    /\ trace[2].at + trace[2].dur + c.frequency > c.timeout

-----------------------------------------------------------------------------
(* Properties of the dry-run and execute entry points *)

\* the dry-run entry points that simulate the call against the provider
SimulatingOps ==
    {"Check_Instance_DryRun", "Create_Tag_DryRun", "Delete_Tag_DryRun",
     "Update_Securitygroup_DryRun"}

\* C3: every provider call issued by a dry-run entry point carries
\* DryRun = true on its request.
C3_DryRunFlagOnEveryCall ==
    op \in DryRunOps =>
        \A i \in 1..Len(calls) :
            /\ "DryRun" \in DOMAIN calls[i].input
            /\ calls[i].input.DryRun = Bool(TRUE)

\* a dry-run entry point has issued its provider call
C3_Witness ==
    /\ pc = "done" /\ op = "Update_Securitygroup_DryRun"
    /\ Len(calls) = 1 /\ calls[1].api = "RevokeSecurityGroupEgress"
    /\ calls[1].input.DryRun = Bool(TRUE)

\* the parameters each action requires
RequiredParams(name) ==
    CASE name \in {"Attach_Securitygroup_DryRun", "Detach_Securitygroup_DryRun"} ->
            {"id", "instance"}
      [] name \in {"Attach_Policy_DryRun", "Detach_Policy_DryRun"} -> {"arn"}
      [] name = "Create_Accesskey_DryRun" -> {"user"}
      [] name \in {"Check_Instance_DryRun", "Check_Securitygroup_DryRun",
                   "Check_Loadbalancer_DryRun"} -> {"id", "state", "timeout"}
      [] name \in {"Create_Tag_DryRun", "Delete_Tag_DryRun"} -> {"resource", "key", "value"}
      [] name = "Create_Keypair_DryRun" -> {"name"}
      [] name = "Update_Securitygroup_DryRun" -> {"id", "cidr", "protocol"}
      [] name = "Create_S3object_DryRun" -> {"bucket", "file"}
      [] name \in {"Create_Record_DryRun", "Delete_Record_DryRun"} ->
            {"zone", "name", "type", "value", "ttl"}
      [] OTHER -> {}

\* C4: a dry-run entry point called without one of its action's required
\* parameters returns an error and issues no provider call.
C4_MissingParamRejected ==
    (Returned /\ op \in DryRunOps /\ \E k \in RequiredParams(op) : ~Has(params, k))
        => (~IsNil(ret.err) /\ calls = <<>>)

\* the code of a failed describe call that a check reads as "resource absent"
AbsentCode(name) ==
    CASE name = "Check_Instance" -> "InstanceNotFound"
      [] name = "Check_Loadbalancer" -> "LoadBalancerNotFound"
      [] OTHER -> "none"

\* C5: an execute entry point one of whose provider calls failed with an
\* error other than the recognised resource-not-found code returns an error.
C5_ProviderErrorNotSwallowed ==
    ( /\ Returned /\ op \notin DryRunOps
      /\ \E i \in 1..Len(calls) :
            /\ ~IsNil(calls[i].resp.err)
            /\ calls[i].resp.err # AwsErr(AbsentCode(op)) )
        => ~IsNil(ret.err)

\* the simulate-only code, or a code ending with the not-found suffix
SimulatedOrNotFound(err) ==
    /\ err.t = "awserr"
    /\ \/ err.code = "DryRunOperation"
       \/ /\ Len(err.code) >= 8
          /\ SubSeq(err.code, Len(err.code) - 7, Len(err.code)) = "NotFound"

\* C6: a dry-run provider call failing with the simulate-only code or a code
\* ending with the not-found suffix makes the dry run succeed; failing with
\* any other error makes it fail.
C6_DryRunClassification ==
    (Returned /\ op \in SimulatingOps /\ Len(calls) = 1 /\ ~IsNil(calls[1].resp.err))
        => (IsNil(ret.err) <=> SimulatedOrNotFound(calls[1].resp.err))

\* a not-found code accepted, for Delete_Tag
C6_Witness ==
    /\ Returned /\ op = "Delete_Tag_DryRun" /\ Len(calls) = 1
    /\ calls[1].resp.err = AwsErr("InvalidInstanceID.NotFound")
    /\ IsNil(ret.err)

C8_AbsentIsNotFoundState ==
    (op \in {"Check_Instance", "Check_Loadbalancer"} /\ c.fetch # "none") =>
        \A i \in 1..Len(trace) :
            calls[i].resp.err = AwsErr(AbsentCode(op)) =>
                /\ trace[i].got = "not-found"
                /\ IsNil(trace[i].err)
                /\ c.expect = "not-found" => (i = Len(trace) /\ Succeeded)

\* LoadBalancerNotFound on the first fetch while expecting "not-found"
C8_Witness ==
    /\ op = "Check_Loadbalancer" /\ c.expect = "not-found"
    /\ Len(trace) = 1 /\ calls[1].resp.err = AwsErr("LoadBalancerNotFound")
    /\ Succeeded

\* C9: when the fetch closure returns an error, check() returns a failure
\* when that fetch returns, whatever is left of the timeout, and makes no
\* further fetch.
C9_FetchErrorFailsAtOnce ==
    CheckRan =>
        \A i \in 1..Len(trace) :
            ~IsNil(trace[i].err) =>
                /\ i = Len(trace)
                /\ Returned
                /\ ret.err = Error("check " \o c.description \o ": "
                                   \o ErrorString(trace[i].err))
                /\ now = trace[i].at + trace[i].dur

\* the second fetch of Check_Securitygroup fails well before the timeout
C9_Witness ==
    /\ op = "Check_Securitygroup" /\ Len(trace) = 2
    /\ ~IsNil(trace[2].err) /\ Returned /\ ~IsNil(ret.err)
    /\ now + c.frequency < c.timeout

\* the cap on the number of fetches never keeps a due tick from running
CapNotBinding == (pc = "select" /\ tickAt <= TimerReady) => Len(trace) < MaxFetches

\* C10: every check() returns: blocked in its select, it eventually returns
\* success, a fetch failure or a timeout failure.
C10_CheckTerminates ==
    /\ []CapNotBinding
    /\ (pc = "select") ~> (pc = "done" /\ ret.kind = "return")

\* a check() that returned by timeout after polling three times
C10_Witness ==
    /\ pc = "done" /\ CheckRan /\ Len(trace) = 3 /\ IsTimeoutError(ret.err)

\* C11 as stated: the n-th fetch is issued when n intervals of length f have
\* elapsed since check() started.
C11_Original ==
    CheckRan => \A n \in 1..Len(trace) : trace[n].at = n * c.frequency

\* C11 (amended): the interval is constant: the first fetch is issued f after
\* check() started and every later one f after the previous fetch returned,
\* so the n-th fetch is issued at n*f plus the time spent inside the first
\* n-1 fetches.
C11_ConstantInterval ==
    CheckRan =>
        \A n \in 1..Len(trace) :
            /\ trace[n].at = n * c.frequency + SumDur(n - 1)
            /\ n > 1 => trace[n].at = trace[n - 1].at + trace[n - 1].dur + c.frequency

\* three fetches, the first taking time: the third is issued later than 3f
C11_Witness ==
    /\ CheckRan /\ Len(trace) = 3
    /\ trace[1].dur > 0
    /\ trace[3].at > 3 * c.frequency

-----------------------------------------------------------------------------
(* Properties of the errors returned *)

\* the human-readable description of the action an entry point belongs to
Description(name) ==
    CASE name \in {"Attach_Securitygroup_DryRun", "Attach_Securitygroup"} ->
            "attach securitygroup"
      [] name \in {"Detach_Securitygroup_DryRun", "Detach_Securitygroup"} ->
            "detach securitygroup"
      [] name = "Attach_Policy_DryRun" -> "attach policy"
      [] name = "Detach_Policy_DryRun" -> "detach policy"
      [] name = "Create_Accesskey_DryRun" -> "create accesskey"
      [] name \in {"Check_Instance_DryRun", "Check_Instance"} -> "check instance"
      [] name \in {"Check_Securitygroup_DryRun", "Check_Securitygroup"} ->
            "check securitygroup"
      [] name \in {"Check_Loadbalancer_DryRun", "Check_Loadbalancer"} ->
            "check loadbalancer"
      [] name \in {"Create_Tag_DryRun", "Create_Tag"} -> "create tag"
      [] name \in {"Delete_Tag_DryRun", "Delete_Tag"} -> "delete tag"
      [] name \in {"Create_Keypair_DryRun", "Create_Keypair"} -> "create keypair"
      [] name \in {"Update_Securitygroup_DryRun", "Update_Securitygroup"} ->
            "update securitygroup"
      [] name \in {"Create_S3object_DryRun", "Create_S3object"} -> "create s3object"
      [] name \in {"Create_Record_DryRun", "Create_Record"} -> "create record"
      [] name \in {"Delete_Record_DryRun", "Delete_Record"} -> "delete record"
      [] OTHER -> "none"

\* C12: every error an entry point returns is wrapped with the description
\* of its action, whatever the origin of the error.
C12_ErrorsCarryDescription ==
    (Returned /\ ~IsNil(ret.err)) => Contains(ErrorString(ret.err), Description(op))

\* C13: a timeout error returned after at least one fetch has observed a
\* state carries the state observed last.
C13_TimeoutCarriesLastState ==
    (pc = "done" /\ CheckRan /\ IsTimeoutError(ret.err) /\ Len(trace) >= 1)
        => Contains(ErrorString(ret.err), trace[Len(trace)].got)

-----------------------------------------------------------------------------
(* Properties of the execute entry points *)

\* provider functions that only read
ReadApis ==
    {"DescribeInstances", "DescribeNetworkInterfaces", "DescribeLoadBalancers",
     "DescribeInstanceAttribute"}

\* the mutating provider calls among those the invocation issued
MutatingCalls == { i \in 1..Len(calls) : calls[i].api \notin ReadApis }

\* C14: an execute entry point issues its mutating provider call at most
\* once; when that call fails, the invocation returns a failure and the
\* failed call is the last call it made.
C14_NoAutomaticRetry ==
    (Returned /\ op \notin DryRunOps) =>
        /\ Cardinality(MutatingCalls) <= 1
        /\ \A i \in MutatingCalls :
              ~IsNil(calls[i].resp.err) => (~IsNil(ret.err) /\ i = Len(calls))

\* Create_Record whose ChangeResourceRecordSets call failed
C14_Witness ==
    /\ Returned /\ op = "Create_Record" /\ Len(calls) = 1
    /\ calls[1].resp.err = AwsErr("InvalidChangeBatch")
    /\ ret.err = Error("create record: " \o ErrorString(AwsErr("InvalidChangeBatch")))

-----------------------------------------------------------------------------
(* Properties of Attach_Securitygroup and Detach_Securitygroup *)

SgSucceeded(i, name) ==
    /\ inv[i].pc = "done" /\ inv[i].op = name
    /\ inv[i].ret.kind = "return" /\ IsNil(inv[i].ret.err)
    /\ Len(inv[i].calls) = 2

Groups(list) == { list[k] : k \in 1..Len(list) }

\* C18: once two concurrent Attach_Securitygroup invocations on the instance
\* with different group ids have both returned success, the instance has
\* both ids and every group it had before.
C18_NoLostUpdate ==
    ( /\ SgSucceeded(1, "Attach_Securitygroup") /\ SgSucceeded(2, "Attach_Securitygroup")
      /\ IsString(Get(inv[1].params, "id")) /\ IsString(Get(inv[2].params, "id"))
      /\ Get(inv[1].params, "id") # Get(inv[2].params, "id") )
        => ( {Sprint(Get(inv[1].params, "id")), Sprint(Get(inv[2].params, "id"))}
                 \cup Groups(initialGroups) ) \subseteq Groups(instanceGroups)

\* the position at which the provider served a call of invocation i
Served(i, api) == CHOOSE k \in 1..Len(events) : events[k] = [proc |-> i, api |-> api]

\* invocation a attached a group id and returned before invocation b was
\* called to detach the same id, both with success; they are the only writers
AttachThenDetach(a, b) ==
    /\ SgSucceeded(a, "Attach_Securitygroup") /\ SgSucceeded(b, "Detach_Securitygroup")
    /\ IsString(Get(inv[a].params, "id"))
    /\ Get(inv[a].params, "id") = Get(inv[b].params, "id")
    /\ Served(a, "ModifyInstanceAttribute") < Served(b, "DescribeInstanceAttribute")

Without(list, g) == SelectSeq(list, LAMBDA x : x # g)

\* C20 as stated: a successful attach followed by a successful detach of the
\* same group leaves the instance with its initial groups in their order,
\* whatever the initial list.
C20_Original ==
    \A a, b \in Procs :
        AttachThenDetach(a, b) => instanceGroups = initialGroups

\* C20 (amended): the round trip restores the initial groups in their order
\* when the group was not attached initially; when it was, the instance ends
\* with its initial groups less that group.
C20_RoundTripUnlessAttached ==
    \A a, b \in Procs :
        AttachThenDetach(a, b) =>
            LET id == Get(inv[a].params, "id").v IN
            /\ id \notin Groups(initialGroups) => instanceGroups = initialGroups
            /\ id \in Groups(initialGroups) => instanceGroups = Without(initialGroups, id)

\* sg-1 attached to, then detached from, an instance holding two other groups
C20_Witness ==
    /\ AttachThenDetach(1, 2)
    /\ Get(inv[1].params, "id") = Str("sg-1")
    /\ initialGroups = <<"sg-3", "sg-2">>
    /\ instanceGroups = <<"sg-3", "sg-2">>

-----------------------------------------------------------------------------
(* Properties of key-pair creation *)

\* C15: with the key-directory variable unset, or with a file already at
\* <dir>/<name>.pem, Create_Keypair_DryRun and Create_Keypair return an
\* error, write no file and issue no provider call.
C15_KeypairFailsRatherThanOverwrites ==
    ( /\ pc = "done" /\ op \in {"Create_Keypair_DryRun", "Create_Keypair"}
      /\ IsString(Get(params, "name")) /\ Get(params, "name").v # ""
      /\ (env.keyDir = "" \/ env.stat \in {"file", "dir"}) )
        => /\ Returned /\ ~IsNil(ret.err)
           /\ files = <<>>
           /\ calls = <<>>

-----------------------------------------------------------------------------
(* Dry run against execute *)

\* the dry-run entry points that build a provider request
RequestOps ==
    {"Create_Tag_DryRun", "Delete_Tag_DryRun", "Update_Securitygroup_DryRun",
     "Check_Instance_DryRun"}

\* What the execute entry point matching dry run name does with mapping p
\* before its provider call: it stops there (an error returned, or a panic),
\* or passes input to the provider.
ExecuteRequest(name, p, ns) ==
    LET e == [DefaultEnv EXCEPT !.nilScalar = ns, !.resp = Resp(Output("ok", <<>>), Nil)]
        of(r) == [rejected |-> r.calls = <<>>,
                  input |-> IF r.calls = <<>> THEN Nil ELSE r.calls[1].input]
    IN CASE name = "Create_Tag_DryRun" -> of(Create_Tag(p, e))
         [] name = "Delete_Tag_DryRun" -> of(Delete_Tag(p, e))
         [] name = "Update_Securitygroup_DryRun" -> of(Update_Securitygroup(p, e))
         [] OTHER -> LET st == Check_Instance(p, e)
                     IN [rejected |-> st.panic \/ ~IsNil(st.err), input |-> st.c.input]

\* the dry run of the state recomputed with the binder treating nil as ns
DryRunAgain(ns) ==
    LET e == [DefaultEnv EXCEPT !.nilScalar = ns,
                                !.resp = IF calls = <<>> THEN NoResp ELSE calls[1].resp]
    IN CASE op = "Create_Tag_DryRun" -> Create_Tag_DryRun(params, e)
         [] op = "Delete_Tag_DryRun" -> Delete_Tag_DryRun(params, e)
         [] op = "Update_Securitygroup_DryRun" -> Update_Securitygroup_DryRun(params, e)
         [] OTHER -> Check_Instance_DryRun(params, e)

\* the binder behaviours under which the dry run did what the state records
SameBinder ==
    { ns \in BOOLEAN :
        /\ Len(DryRunAgain(ns).calls) = Len(calls)
        /\ calls # <<>> => DryRunAgain(ns).calls[1].input = calls[1].input }

-----------------------------------------------------------------------------
(* Frame of the parameter binder *)

RECURSIVE ValueAtPath(_, _)
ValueAtPath(i, fieldPath) ==
    IF Len(fieldPath) = 1 THEN i[fieldPath[1]]
    ELSE ValueAtPath(i[fieldPath[1]], Tail(fieldPath))

\* the paths of a ChangeResourceRecordSetsInput whose ChangeBatch is set
InputPaths ==
    {<<"HostedZoneId">>, <<"ChangeBatch", "Comment">>, <<"ChangeBatch", "Changes">>}

\* values and kinds offered to one more bind on the issued request
BindValues == {Str("other"), GoInt(7), Nil}
BindKinds == {awsstr, awsint64}

\* the request Create_Record is to send for mapping p: every bound leaf
\* holds its coerced parameter, every other field its zero value
ExpectedRecordRequest(p) ==
    [struct |-> "ChangeResourceRecordSetsInput",
     HostedZoneId |-> Str(Sprint(Get(p, "zone"))),
     ChangeBatch |->
        [Comment |-> IF Has(p, "comment") THEN Str(Sprint(Get(p, "comment"))) ELSE Nil,
         Changes |-> <<[Action |-> Str("CREATE"),
                        ResourceRecordSet |->
                           [Name |-> Str(Sprint(Get(p, "name"))),
                            Type |-> Str(Sprint(Get(p, "type"))),
                            TTL |-> Int64(Get(p, "ttl").v),
                            ResourceRecords |->
                               <<[Value |-> Str(Sprint(Get(p, "value")))]>>]]>>]]

-----------------------------------------------------------------------------
(* Validation before execution *)

\* whether the execute entry point matching dry run name panics on mapping p
ExecutePanics(name, p, ns) ==
    LET e == [DefaultEnv EXCEPT !.nilScalar = ns, !.stat = "file"] IN
    CASE name = "Check_Instance_DryRun" -> Check_Instance(p, e).panic
      [] name = "Check_Securitygroup_DryRun" -> Check_Securitygroup(p, e).panic
      [] name = "Check_Loadbalancer_DryRun" -> Check_Loadbalancer(p, e).panic
      [] name = "Create_S3object_DryRun" -> "panic" \in DOMAIN Create_S3object(p, e)
      [] OTHER -> FALSE

\* C19: on a mapping the dry run accepted, the execute entry point of
\* Check_Instance, Check_Securitygroup, Check_Loadbalancer and
\* Create_S3object returns a result or an error and does not panic.
C19_ValidatedExecuteNeverPanics ==
    ( /\ Returned /\ IsNil(ret.err)
      /\ op \in {"Check_Instance_DryRun", "Check_Securitygroup_DryRun",
                 "Check_Loadbalancer_DryRun", "Create_S3object_DryRun"} )
        => \A ns \in BOOLEAN : ~ExecutePanics(op, params, ns)

====
